---- MODULE Spec2Model ----
(***************************************************************************)
(* Model of the incremental ETL of syr_open_data.py: the orchestration     *)
(* loop of __main__, fetch_and_load_data, fetch_data (one step per page    *)
(* request), the watermark readers and the loader, against an upstream     *)
(* feature service whose records are only ever added and a SQLite store.   *)
(*                                                                         *)
(* Time is counted in ticks, TicksPerDay ticks to a calendar day.  An      *)
(* upstream record is [id, date]: its ObjectId and the timestamp (in       *)
(* ticks) of its date field.  A table is Absent or holds a sequence of     *)
(* rows.                                                                   *)
(***************************************************************************)
EXTENDS Integers, Sequences, FiniteSets, TLC

\* ------------------------------------------------------------- bounds ----
MaxTime     == 2        \* the clock stops at this tick
TicksPerDay == 2        \* ticks per calendar day (resolution of a timestamp)
MaxUpstream == 2        \* records the feature service can hold, all datasets together
MaxRuns     == 2        \* orchestration runs (process invocations)
record_limit == 2       \* the page size of fetch_data (1000 in the source), scaled
maxRecordCount == 1     \* records the service returns when no page size is asked
MaxRecordsCap == 1      \* the max_records of the capped dataset
MaxViolations == 2      \* code_violations rows of one address
MaxSubmissions == 2     \* submissions of the lookup form
MaxMs == 1              \* the largest millisecond value of a fetched date
MaxBatch == 3           \* records of a fetched batch

\* Python's None and a present value; a table that does not exist
None    == <<>>
Some(v) == <<v>>
Val(o)  == o[1]
Absent  == [exists |-> FALSE, rows |-> <<>>]
Table(rows) == [exists |-> TRUE, rows |-> rows]


VARIABLES
  cfg,        \* endpoints: the configured list, index -> config
  upstream,   \* per dataset, the set of records the feature service holds
  table,      \* per dataset, Absent or Table(the sequence of stored rows)
  now,        \* the clock, in ticks
  runs,       \* orchestration runs started so far
  pc,         \* "idle" | "loop" | "paging" | "fetched" | "crashed"
  idx,        \* position of the for loop of __main__ in the endpoints list
  branch,     \* branch of fetch_and_load_data taken for the current dataset
  wm,         \* the watermark read for the current dataset
  params,     \* the query parameters of the current fetch
  offset,     \* fetch_data: offset
  all_records,\* fetch_data: all_records
  result,     \* fetch_data: the returned table, or None
  reqLog,     \* offsets of the requests issued by the current fetch_data call
  lastResp,   \* kind of the response to the last request of this fetch
  fault,      \* some request of the current fetch ended in an error
  pages,      \* the feature lists received by the current fetch_data call
  wmReads,    \* watermark reads of the current fetch_and_load_data call
  clean,      \* the datasets of this run whose requests and load all succeeded
  loadLog,    \* loads performed since the end of the previous run
  processed,  \* datasets fetch_and_load_data was invoked for, this run
  tblBefore,  \* the store as it was when the current dataset was entered
  faulted,    \* some request, store access or run has failed so far
  raised,     \* the exception that ended the run, "none" while there is none
  base        \* per dataset, row count after a replace-load of a missing table

vars == <<cfg, upstream, table, now, runs, pc, idx, branch, wm, params, offset,
          all_records, result, reqLog, lastResp, fault, pages, wmReads,
          clean, loadLog, processed, tblBefore, faulted, raised, base>>

\* ------------------------------------------------------------ helpers ----
RECURSIVE SortById(_)
\* the records of S in ObjectId order (the service's default order)
SortById(S) ==
  IF S = {} THEN <<>>
  ELSE LET m == CHOOSE r \in S : \A q \in S : r.id <= q.id
       IN <<m>> \o SortById(S \ {m})

Range(s) == {s[i] : i \in 1..Len(s)}

Min(a, b) == IF a < b THEN a ELSE b

\* a truncation that keeps the last n elements
Take_last(s, n) == SubSeq(s, Len(s) - Min(n, Len(s)) + 1, Len(s))

\* s[:n]
Take(s, n) == SubSeq(s, 1, Min(n, Len(s)))

MaxOf(S) == CHOOSE x \in S : \A y \in S : y <= x

\* strftime('%Y-%m-%d') of a timestamp: the calendar day, time of day dropped
strftime(t) == t \div TicksPerDay

\* the timestamp a service reads a 'YYYY-MM-DD' literal as: midnight of the day
DateLiteral(day) == day * TicksPerDay

\* ----------------------------------------------------- configurations ----
\* days_ago = None / base_url = FALSE stand for a key missing from the config
DateCfg   == [date_field |-> TRUE,  id_field |-> FALSE, days_ago |-> Some(1),
              base_url |-> TRUE, paginate |-> TRUE, max_records |-> None]
IdCfg     == [date_field |-> FALSE, id_field |-> TRUE,  days_ago |-> None,
              base_url |-> TRUE, paginate |-> TRUE, max_records |-> None]
NoDaysCfg == [DateCfg EXCEPT !.days_ago = None]
NoUrlCfg  == [IdCfg EXCEPT !.base_url = FALSE]
NoKeyCfg  == [IdCfg EXCEPT !.id_field = FALSE]
\* a dataset fetched without pagination, and one with a record cap
OnePageCfg == [DateCfg EXCEPT !.paginate = FALSE]
CapCfg     == [IdCfg EXCEPT !.max_records = Some(MaxRecordsCap)]
\* an id-keyed dataset fetched without pagination
IdOnePageCfg == [IdCfg EXCEPT !.paginate = FALSE]

\* the endpoints lists the model is run on: like the list of the source, the
\* date-keyed datasets come before the id-keyed one; between them sits a
\* dataset whose config lacks a key
EndpointLists == { <<DateCfg, NoKeyCfg, IdCfg>>,
                   <<OnePageCfg, CapCfg, NoDaysCfg>>,
                   <<IdOnePageCfg, NoUrlCfg, DateCfg>> }

NumDatasets == Len(CHOOSE l \in EndpointLists : TRUE)
Datasets == 1..NumDatasets

\* ------------------------------------------------------ Query Builder ----
\* build_query_params: only the where clause varies; the paging parameters
\* start out as empty strings (None here)
build_query_params(start_date, end_date) ==
  [where |-> [op |-> "between", lo |-> strftime(start_date),
              hi |-> strftime(end_date)],
   resultOffset |-> None, resultRecordCount |-> None]

\* the params literal of the id branch of fetch_and_load_data
id_query_params(max_id_in_db) ==
  [where |-> [op |-> "gt",
              lo |-> IF max_id_in_db # 0 THEN max_id_in_db ELSE 0, hi |-> 0],
   resultOffset |-> None, resultRecordCount |-> None]

NoParams == [where |-> [op |-> "none", lo |-> 0, hi |-> 0],
             resultOffset |-> None, resultRecordCount |-> None]

\* ---------------------------------------------------- feature service ----
\* the service honours the where clause: BETWEEN is inclusive at both ends
Satisfies(r, w) ==
  IF w.op = "between"
  THEN DateLiteral(w.lo) <= r.date /\ r.date <= DateLiteral(w.hi)
  ELSE r.id > w.lo

\* the features of one response: the matching records in ObjectId order, cut
\* to the requested window, or to the service's own limit without a window
ServerFeatures(recs, p) ==
  LET all == SortById({r \in recs : Satisfies(r, p.where)})
  IN IF p.resultOffset = None
     THEN Take(all, maxRecordCount)
     ELSE SubSeq(all, Val(p.resultOffset) + 1,
                 Min(Val(p.resultOffset) + Val(p.resultRecordCount), Len(all)))

\* ---------------------------------------------------- Watermark Store ----
\* SELECT MAX(field) FROM table: raises when the table does not exist or the
\* store fails, yields NULL (None) for a table without rows
SqlMax(tbl, field, readOk) ==
  IF ~tbl.exists \/ ~readOk THEN [raised |-> TRUE, value |-> None]
  ELSE IF tbl.rows = <<>> THEN [raised |-> FALSE, value |-> None]
  ELSE [raised |-> FALSE,
        value |-> Some(MaxOf({tbl.rows[i][field] : i \in 1..Len(tbl.rows)}))]

get_max_date_from_sqlite(tbl, readOk) ==
  LET q == SqlMax(tbl, "date", readOk)
  IN IF q.raised THEN [raised |-> FALSE, value |-> None]
     ELSE [raised |-> FALSE, value |-> q.value]

\* get_max_id_from_sqlite without its try/except: the query's exception
\* reaches the caller
get_max_id_uncaught(tbl, readOk) ==
  LET q == SqlMax(tbl, "id", readOk)
  IN IF q.raised THEN [raised |-> TRUE, value |-> 0]
     ELSE IF q.value # None /\ Val(q.value) # 0
          THEN [raised |-> FALSE, value |-> Val(q.value)]
          ELSE [raised |-> FALSE, value |-> 0]

get_max_id_from_sqlite(tbl, readOk) ==
  LET q == SqlMax(tbl, "id", readOk)
  IN IF q.raised THEN [raised |-> FALSE, value |-> 0]
     ELSE IF q.value # None /\ Val(q.value) # 0
          THEN [raised |-> FALSE, value |-> Val(q.value)]
          ELSE [raised |-> FALSE, value |-> 0]

\* ------------------------------------------------------------- Loader ----
\* load_dataframe_to_sqlite: to_sql, every exception caught and logged (also
\* the AttributeError of df = None).  outcome "error": nothing was written;
\* "error_after_drop": a replace failed after the old table was dropped and
\* recreated
load_dataframe_to_sqlite(df, tbl, if_exists, outcome) ==
  IF df = None THEN tbl
  ELSE IF outcome = "ok"
  THEN IF if_exists = "replace" THEN Table(Val(df))
       ELSE Table(tbl.rows \o Val(df))
  ELSE IF outcome = "error_after_drop" /\ if_exists = "replace"
       THEN Table(<<>>)
       ELSE tbl

\* ------------------------------------------------------ Pager/Fetcher ----
\* pd.DataFrame(all_records), as the rows it holds: a row carries the instant
\* of its date field, which to_datetime(unit='ms') and the store keep
DataFrame(recs) == recs

\* fetch_data without its "if not all_records: return None"
fetch_result_empty_table(recs) == Some(DataFrame(recs))

\* the value fetch_data returns once its loop was left by a break
fetch_result(recs) == IF recs = <<>> THEN None ELSE Some(DataFrame(recs))

\* responses whose handling raises one of the four exceptions fetch_data
\* catches
CaughtKinds == {"request_error", "json_error", "key_error", "type_error"}
RespKinds == {"ok", "invalid", "attribute_error"} \cup CaughtKinds

\* ------------------------------------------- interactive lookup: state ----
VARIABLES
  lpc,               \* where main stands: "form", "match_prop",
                     \* "match_complaint", "display", "query_prop",
                     \* "query_complaint", "combine", "done" or "raised"
  input_address,     \* the text of the input box
  code_violations,   \* the code_violations table: rows held per address
  data_prop,         \* process_address against the rental registry
  data_complaint,    \* process_address against the complaint addresses
  unparsed,          \* the halves whose oracle reply was not JSON
  shown,             \* what main has written to the page
  matched_addresses, \* the list of main
  dfs,               \* the list of main
  queried,           \* the halves whose violations were queried, in order
  summary_text,      \* the return value of summarize_violations
  oracleLog,         \* the oracle calls of this submission, in order
  failure,           \* the exception main died of, and the step it came from
  submissions        \* submissions so far

lookupVars == <<lpc, input_address, code_violations, data_prop,
                data_complaint, unparsed, shown, matched_addresses, dfs,
                queried, summary_text, oracleLog, failure, submissions>>

\* an address the oracle can name; the second one carries an apostrophe
Addresses == {"1 Main St", "2 O'Brien Ave"}

\* the address contains the quote that ends the SQL literal of the query
HasQuote(addr) == addr = "2 O'Brien Ave"

\* a reply to send_message: text that parses to the schema's object, with
\* matched_database_address "" when there is no match, or text that does not
AddressReplies ==
  { [json |-> FALSE, matched |-> ""] }
    \cup { [json |-> TRUE, matched |-> a] : a \in {""} \cup Addresses }

\* the text of a summary reply; it may be empty
SummaryReplies == {"summary", ""}

\* json.loads(response.text)
json_loads(reply) ==
  IF reply.json
  THEN [raised |-> FALSE,
        value |-> Some([matched_database_address |-> reply.matched])]
  ELSE [raised |-> TRUE, value |-> None]

\* process_address without its except clause
process_address_uncaught(reply) == json_loads(reply)

\* process_address after send_message has returned: JSONDecodeError is caught
\* and None returned
process_address(reply) ==
  LET r == json_loads(reply)
  IN IF r.raised THEN [raised |-> FALSE, value |-> None] ELSE r

\* "if data and data['matched_database_address']"
HasMatch(data) == data # None /\ Val(data).matched_database_address # ""

\* SELECT * FROM code_violations WHERE complaint_address = '<addr>'
ViolationsOf(addr) ==
  [i \in 1..code_violations[addr] |-> [complaint_address |-> addr,
                                       violation_number |-> i]]

RECURSIVE concat(_)
\* pd.concat(dfs, ignore_index=True)
concat(frames) ==
  IF frames = <<>> THEN <<>> ELSE Head(frames) \o concat(Tail(frames))

\* a summarize_violations that asks the oracle once per violation
summarize_violations_per_row(df, reply) ==
  IF df = <<>>
  THEN [text |-> "No violations to summarize.", calls |-> 0]
  ELSE [text |-> reply, calls |-> Len(df)]

\* a summarize_violations without its "if df.empty" return
summarize_violations_always_asks(df, reply) ==
  [text |-> reply, calls |-> 1]

\* summarize_violations: the fixed text for an empty frame, else one
\* generate_content call whose text is returned
summarize_violations(df, reply) ==
  IF df = <<>>
  THEN [text |-> "No violations to summarize.", calls |-> 0]
  ELSE [text |-> reply, calls |-> 1]

NoExc == [kind |-> "none", at |-> "none"]

\* main has not been entered
LookupParked ==
  /\ lpc = "form" /\ input_address = ""
  /\ code_violations = [a \in Addresses |-> 0]
  /\ data_prop = None /\ data_complaint = None /\ unparsed = {}
  /\ shown = {} /\ matched_addresses = <<>> /\ dfs = <<>> /\ queried = <<>>
  /\ summary_text = None /\ oracleLog = <<>> /\ failure = NoExc
  /\ submissions = 0

\* ------------------------------------------------ date conversion: state ----
VARIABLES
  cpc,        \* "input" before the frame is built, "returned" after
  field,      \* the name of one column of the batch
  batch,      \* that attribute of the fetched records, in order
  frame       \* the column of the table fetch_data returns

convertVars == <<cpc, field, batch, frame>>

\* the attribute of one fetched record: an integer of milliseconds, or
\* nothing (the record lacks the field, or carries null)
Missing == [kind |-> "missing", v |-> 0]
IntCell(n) == [kind |-> "int", v |-> n]
Cells == {Missing} \cup {IntCell(n) : n \in 0..MaxMs}

ColumnNames == {"open_date", "Violation_Date", "status"}

\* col.lower()
lower(name) == IF name = "Violation_Date" THEN "violation_date" ELSE name

\* 'date' in s
ContainsDate(s) == s \in {"open_date", "violation_date"}

AllInt(col) == \A i \in DOMAIN col : col[i].kind = "int"
SomeInt(col) == \E i \in DOMAIN col : col[i].kind = "int"

\* the dtype pandas gives a column of integers and gaps
dtype(col) ==
  IF AllInt(col) THEN "int64" ELSE IF SomeInt(col) THEN "float64" ELSE "object"

\* pd.DataFrame(all_records), one column: integers stay integers only when no
\* record lacks the value; otherwise they become floats and the gaps NaN
DataFrameColumn(col) ==
  IF dtype(col) = "float64"
  THEN [i \in DOMAIN col |->
          IF col[i].kind = "int" THEN [kind |-> "float", v |-> col[i].v]
          ELSE [kind |-> "nan", v |-> 0]]
  ELSE col

\* pd.to_datetime(value, unit='ms')
to_datetime(cell) == [kind |-> "timestamp", v |-> cell.v]

\* the conversion loop of fetch_data, for one column
convert_dates(name, col) ==
  LET c == DataFrameColumn(col)
  IN IF ContainsDate(lower(name)) /\ dtype(col) = "int64"
     THEN [i \in DOMAIN c |-> to_datetime(c[i])]
     ELSE c

\* no batch is being converted
ConvertParked ==
  /\ cpc = "parked" /\ field = "" /\ batch = <<>> /\ frame = <<>>

auxVars == <<lookupVars, convertVars>>

\* ------------------------------------------------------- Orchestrator ----
\* fetch_and_load_data with the id branch replacing the table
LoadMode_id_replaces(br, df) ==
  IF br = "full" THEN (IF df # None THEN "replace" ELSE "none")
  ELSE IF br = "incremental"
       THEN (IF df # None /\ Val(df) # <<>> THEN "append" ELSE "none")
       ELSE IF br = "id"
       THEN (IF df # None /\ Val(df) # <<>> THEN "replace" ELSE "none")
       ELSE "none"

\* fetch_and_load_data with the first-load branch not testing df
LoadMode_loads_none(br, df) ==
  IF br = "full" THEN "replace"
  ELSE IF br \in {"incremental", "id"}
       THEN (IF df # None /\ Val(df) # <<>> THEN "append" ELSE "none")
       ELSE "none"

\* the load fetch_and_load_data performs for a fetch result: the first-load
\* branch tests "df is not None", the two incremental branches add "not
\* df.empty"
LoadMode(br, df) ==
  IF br = "full" THEN (IF df # None THEN "replace" ELSE "none")
  ELSE IF br \in {"incremental", "id"}
       THEN (IF df # None /\ Val(df) # <<>> THEN "append" ELSE "none")
       ELSE "none"

\* fetch_and_load_data with its final else taken for the id branch
Branch_no_skip(c, max_date_in_db) ==
  IF c.date_field
  THEN (IF max_date_in_db = None THEN "full" ELSE "incremental")
  ELSE "id"

\* the branch of fetch_and_load_data: if date_field / elif id_field / else
Branch(c, max_date_in_db) ==
  IF c.date_field
  THEN (IF max_date_in_db = None THEN "full" ELSE "incremental")
  ELSE IF c.id_field THEN "id" ELSE "skip"

\* the watermark reads of a branch: one call of get_max_date_from_sqlite or
\* get_max_id_from_sqlite at its head, none in the final else
WatermarkReads(br) == IF br = "skip" THEN 0 ELSE 1

\* fetch_data setting the paging parameters whatever paginate says
PageParams_always(paginate, p, off) ==
  [p EXCEPT !.resultOffset = Some(off),
            !.resultRecordCount = Some(record_limit)]

\* the parameters of one request: offset and page size only "if paginate"
PageParams(paginate, p, off) ==
  IF paginate
  THEN [p EXCEPT !.resultOffset = Some(off),
                 !.resultRecordCount = Some(record_limit)]
  ELSE p

\* the cap test with > for >=
Capped_late(max_records, n) ==
  max_records # None /\ Val(max_records) # 0 /\ n > Val(max_records)

\* "if max_records and len(all_records) >= max_records"
Capped(max_records, n) ==
  max_records # None /\ Val(max_records) # 0 /\ n >= Val(max_records)

\* a fetch_data that writes every page to the store as it arrives
StoreWhilePaging_commits(tbl, features) == Table(tbl.rows \o features)

\* what an iteration of fetch_data does to the store: nothing
StoreWhilePaging(tbl, features) == tbl

\* an offset advanced past one record more than the page held
NextOffset_skips(off) == off + record_limit + 1

\* "offset += record_limit"
NextOffset(off) == off + record_limit

NoBase == [d \in Datasets |-> None]

Init ==
  /\ cfg \in EndpointLists
  /\ upstream = [d \in Datasets |-> {}]
  /\ \E t \in {Absent, Table(<<>>)} : table = [d \in Datasets |-> t]
  /\ now = 0
  /\ runs = 0
  /\ pc = "idle"
  /\ idx = 1
  /\ branch = "skip"
  /\ wm = None
  /\ params = NoParams
  /\ offset = 0
  /\ all_records = <<>>
  /\ result = None
  /\ reqLog = <<>>
  /\ lastResp = "none"
  /\ fault = FALSE
  /\ pages = <<>>
  /\ wmReads = 0
  /\ clean = {}
  /\ loadLog = <<>>
  /\ processed = <<>>
  /\ tblBefore = table
  /\ faulted = FALSE
  /\ raised = "none"
  /\ base = NoBase
  /\ LookupParked /\ ConvertParked

fetchVars == <<wm, branch, params, offset, all_records, result, reqLog,
               lastResp, fault, pages, wmReads>>
runVars == <<pc, idx, loadLog, processed, tblBefore, clean>>

\* the locals of a finished call are gone
ResetFetch ==
  /\ wm' = None /\ branch' = "skip" /\ params' = NoParams /\ offset' = 0
  /\ all_records' = <<>> /\ result' = None /\ reqLog' = <<>>
  /\ lastResp' = "none" /\ fault' = FALSE /\ pages' = <<>> /\ wmReads' = 0

\* a dataset whose config lets fetch_and_load_data reach fetch_data at all;
\* the upstream of any other dataset is never looked at
Fetchable(c) ==
  c.base_url /\ (c.date_field \/ c.id_field)
  /\ (c.date_field => c.days_ago # None)

RECURSIVE SumCard(_, _)
SumCard(f, n) == IF n = 0 THEN 0 ELSE Cardinality(f[n]) + SumCard(f, n - 1)

TotalUpstream == SumCard(upstream, NumDatasets)

\* the feature service gains a record, dated at its creation (ObjectIds are
\* handed out in order)
EnvAddRecord(d, date) ==
  /\ pc = "idle"
  /\ Fetchable(cfg[d])
  /\ TotalUpstream < MaxUpstream
  /\ upstream' = [upstream EXCEPT ![d] =
                    @ \cup {[id |-> Cardinality(@) + 1, date |-> date]}]
  /\ base' = NoBase
  /\ UNCHANGED <<cfg, table, now, runs, faulted, raised>>
  /\ UNCHANGED fetchVars /\ UNCHANGED runVars
  /\ UNCHANGED auxVars

\* time passes
EnvTick ==
  /\ pc = "idle"
  /\ now < MaxTime
  /\ now' = now + 1
  /\ base' = NoBase
  /\ UNCHANGED <<cfg, upstream, table, runs, faulted, raised>>
  /\ UNCHANGED fetchVars /\ UNCHANGED runVars
  /\ UNCHANGED auxVars

\* __main__: the connection is opened and the for loop entered; a process
\* that died of an uncaught exception can be started again
StartRun ==
  /\ pc \in {"idle", "crashed"}
  /\ runs < MaxRuns
  /\ runs' = runs + 1
  /\ pc' = "loop"
  /\ idx' = 1
  /\ processed' = <<>>
  /\ loadLog' = <<>> /\ clean' = {}
  /\ tblBefore' = table
  /\ raised' = "none"
  /\ ResetFetch
  /\ UNCHANGED <<cfg, upstream, table, now, faulted, base>>
  /\ UNCHANGED auxVars

\* fetch_and_load_data up to its call of fetch_data: the branch is chosen, the
\* watermark read, the parameters built.  config["days_ago"] and
\* config["base_url"] raise KeyError when the key is missing.
BeginDataset(readOk) ==
  /\ pc = "loop"
  /\ idx <= NumDatasets
  /\ LET c == cfg[idx]
         d == get_max_date_from_sqlite(table[idx], readOk)
         i == get_max_id_from_sqlite(table[idx], readOk)
         br == Branch(c, d.value)
         exc == IF (c.date_field /\ d.raised)
                   \/ (~c.date_field /\ c.id_field /\ i.raised)
                THEN "watermark"
                ELSE IF br = "full" /\ c.days_ago = None
                THEN "KeyError: days_ago"
                ELSE IF br # "skip" /\ ~c.base_url
                THEN "KeyError: base_url"
                ELSE "none"
         raises == exc # "none"
     IN /\ processed' = Append(processed, idx)
        /\ tblBefore' = table
        /\ raised' = exc
        /\ branch' = br
        /\ faulted' = (faulted \/ raises
                        \/ (br # "skip" /\ table[idx].exists /\ ~readOk))
        /\ wm' = IF br \in {"full", "incremental"} THEN d.value
                 ELSE IF br = "id" THEN Some(i.value) ELSE None
        /\ offset' = 0
        /\ all_records' = <<>>
        /\ result' = None
        /\ reqLog' = <<>>
        /\ lastResp' = "none"
        /\ fault' = FALSE
        /\ pages' = <<>>
        /\ wmReads' = WatermarkReads(br)
        /\ IF raises
           THEN /\ pc' = "crashed"
                /\ params' = NoParams
                /\ idx' = idx
           ELSE IF br = "skip"
           THEN /\ pc' = "loop"
                /\ params' = NoParams
                /\ idx' = idx + 1
           ELSE /\ pc' = "paging"
                /\ idx' = idx
                /\ params' =
                     IF br = "full"
                     THEN build_query_params(
                            now - Val(c.days_ago) * TicksPerDay, now)
                     ELSE IF br = "incremental"
                     THEN build_query_params(Val(d.value), now)
                     ELSE id_query_params(i.value)
  /\ UNCHANGED <<cfg, upstream, table, now, runs, loadLog, clean, base>>
  /\ UNCHANGED auxVars

\* one iteration of the while loop of fetch_data: one request and the
\* handling of its response
PageRequest(kind) ==
  /\ pc = "paging"
  /\ LET c == cfg[idx]
         p == PageParams(c.paginate, params, offset)
         features == ServerFeatures(upstream[idx], p)
         acc == all_records \o features
         capped == Capped(c.max_records, Len(acc))
     IN /\ params' = p
        /\ reqLog' = Append(reqLog, p.resultOffset)
        /\ lastResp' = IF kind = "ok" /\ features = <<>> THEN "empty" ELSE kind
        /\ fault' = (fault \/ kind # "ok")
        /\ pages' = IF kind = "ok" THEN Append(pages, features) ELSE pages
        /\ table' = [table EXCEPT ![idx] =
                       StoreWhilePaging(@, IF kind = "ok" THEN features
                                           ELSE <<>>)]
        /\ faulted' = (faulted \/ kind # "ok")
        /\ raised' = IF kind = "attribute_error" THEN "AttributeError"
                      ELSE "none"
        /\ IF kind = "attribute_error"
           THEN \* geometry.get on a non-mapping: not caught by fetch_data
                /\ pc' = "crashed"
                /\ UNCHANGED <<offset, all_records, result>>
           ELSE IF kind \in CaughtKinds
           THEN /\ pc' = "fetched"
                /\ result' = None
                /\ UNCHANGED <<offset, all_records>>
           ELSE IF kind = "invalid" \/ features = <<>>
           THEN \* no 'features' key, or an empty feature list: break
                /\ pc' = "fetched"
                /\ result' = fetch_result(all_records)
                /\ UNCHANGED <<offset, all_records>>
           ELSE IF capped
           THEN /\ pc' = "fetched"
                /\ all_records' = Take(acc, Val(c.max_records))
                /\ result' = fetch_result(all_records')
                /\ UNCHANGED offset
           ELSE IF ~c.paginate
           THEN /\ pc' = "fetched"
                /\ all_records' = acc
                /\ result' = fetch_result(all_records')
                /\ UNCHANGED offset
           ELSE /\ pc' = "paging"
                /\ all_records' = acc
                /\ offset' = NextOffset(offset)
                /\ UNCHANGED result
  /\ UNCHANGED <<cfg, upstream, now, runs, idx, branch, wm, wmReads, loadLog, clean,
                 processed, tblBefore, base>>
  /\ UNCHANGED auxVars

\* the rest of fetch_and_load_data: the load its branch decides on, then
\* the return to the for loop
LoadStep(outcome) ==
  /\ pc = "fetched"
  /\ LET mode == LoadMode(branch, result)
     IN IF mode = "none"
        THEN UNCHANGED <<table, loadLog, faulted>>
        ELSE /\ table' = [table EXCEPT ![idx] =
                   load_dataframe_to_sqlite(result, @, mode, outcome)]
             /\ loadLog' = Append(loadLog,
                   [ds |-> idx, mode |-> mode, branch |-> branch, wm |-> wm,
                    rows |-> IF result = None THEN <<>> ELSE Val(result),
                    before |-> table[idx], after |-> table'[idx],
                    ok |-> (outcome = "ok")])
             /\ faulted' = (faulted \/ outcome # "ok")
  /\ clean' = IF ~fault /\ (LoadMode(branch, result) = "none" \/ outcome = "ok")
               THEN clean \cup {idx} ELSE clean
  /\ pc' = "loop"
  /\ idx' = idx + 1
  /\ tblBefore' = table'
  /\ ResetFetch
  /\ UNCHANGED <<cfg, upstream, now, runs, processed, raised, base>>
  /\ UNCHANGED auxVars

\* the for loop is exhausted: conn.close(), "Completed successfully."
FinishRun ==
  /\ pc = "loop"
  /\ idx > NumDatasets
  /\ pc' = "idle"
  /\ base' = [d \in Datasets |->
                IF \E k \in 1..Len(loadLog) :
                     /\ loadLog[k].ds = d /\ loadLog[k].mode = "replace"
                     /\ loadLog[k].ok /\ ~loadLog[k].before.exists
                THEN Some(Len(table[d].rows)) ELSE None]
  /\ loadLog' = <<>> /\ clean' = {}
  /\ UNCHANGED <<cfg, upstream, table, now, runs, idx, processed, tblBefore,
                 faulted, raised>>
  /\ UNCHANGED fetchVars
  /\ UNCHANGED auxVars

Next ==
  \/ \E d \in Datasets : EnvAddRecord(d, now)
  \/ EnvTick
  \/ StartRun
  \/ \E readOk \in BOOLEAN : BeginDataset(readOk)
  \/ \E kind \in RespKinds : PageRequest(kind)
  \/ \E outcome \in {"ok", "error", "error_after_drop"} : LoadStep(outcome)
  \/ FinishRun

Spec == Init /\ [][Next]_vars

\* the loop of fetch_data is not suspended: a request that was issued is
\* answered, by a response or by an exception, and the iteration completes
SpecLive == Spec /\ WF_vars(\E kind \in RespKinds : PageRequest(kind))

\* ------------------------------------------------- interactive lookup ----
\* the loader is not running
EtlParked ==
  /\ cfg = <<DateCfg, NoKeyCfg, IdCfg>>
  /\ upstream = [d \in Datasets |-> {}]
  /\ table = [d \in Datasets |-> Absent]
  /\ now = 0 /\ runs = 0 /\ pc = "idle" /\ idx = 1
  /\ branch = "skip" /\ wm = None /\ params = NoParams /\ offset = 0
  /\ all_records = <<>> /\ result = None /\ reqLog = <<>>
  /\ lastResp = "none" /\ fault = FALSE /\ pages = <<>> /\ wmReads = 0
  /\ loadLog = <<>> /\ processed = <<>> /\ tblBefore = table /\ clean = {}
  /\ faulted = FALSE /\ raised = "none" /\ base = NoBase

LookupInit ==
  /\ EtlParked /\ ConvertParked
  /\ lpc = "form" /\ input_address = ""
  /\ code_violations \in [Addresses -> 0..MaxViolations]
  /\ data_prop = None /\ data_complaint = None /\ unparsed = {}
  /\ shown = {} /\ matched_addresses = <<>> /\ dfs = <<>> /\ queried = <<>>
  /\ summary_text = None /\ oracleLog = <<>> /\ failure = NoExc
  /\ submissions = 0

\* the script is run from its top on every submission: main is entered with
\* fresh locals; "if input_address" ends it at once for an empty box
Submit(addr) ==
  /\ lpc \in {"form", "done", "raised"}
  /\ submissions < MaxSubmissions
  /\ submissions' = submissions + 1
  /\ input_address' = addr
  /\ lpc' = IF addr = "" THEN "done" ELSE "match_prop"
  /\ data_prop' = None /\ data_complaint' = None /\ unparsed' = {}
  /\ shown' = {} /\ matched_addresses' = <<>> /\ dfs' = <<>>
  /\ queried' = <<>> /\ summary_text' = None /\ oracleLog' = <<>>
  /\ failure' = NoExc
  /\ UNCHANGED <<code_violations, vars, convertVars>>

\* one of the two process_address calls of main: send_message, which may
\* raise, then the parse of the reply
Match(half, reply, sent) ==
  /\ lpc = (IF half = "prop" THEN "match_prop" ELSE "match_complaint")
  /\ oracleLog' = Append(oracleLog, half)
  /\ LET r == process_address(reply)
         next == IF half = "prop" THEN "match_complaint" ELSE "display"
     IN IF ~sent \/ r.raised
        THEN /\ failure' = [kind |-> IF sent THEN "JSONDecodeError"
                                             ELSE "oracle",
                            at |-> half]
             /\ lpc' = "raised"
             /\ unparsed' = IF sent THEN unparsed \cup {half} ELSE unparsed
             /\ UNCHANGED <<data_prop, data_complaint>>
        ELSE /\ lpc' = next
             /\ unparsed' = IF reply.json THEN unparsed
                            ELSE unparsed \cup {half}
             /\ IF half = "prop"
                THEN data_prop' = r.value /\ UNCHANGED data_complaint
                ELSE data_complaint' = r.value /\ UNCHANGED data_prop
             /\ UNCHANGED failure
  /\ UNCHANGED <<input_address, code_violations, shown, matched_addresses,
                 dfs, queried, summary_text, submissions, vars, convertVars>>

\* the two columns: a half is written only "if data_prop" / "if data_complaint"
Display ==
  /\ lpc = "display"
  /\ shown' = {h \in {"prop", "complaint"} :
                 (IF h = "prop" THEN data_prop ELSE data_complaint) # None}
  /\ lpc' = "query_prop"
  /\ UNCHANGED <<input_address, code_violations, data_prop, data_complaint,
                 unparsed, matched_addresses, dfs, queried, summary_text,
                 oracleLog, failure, submissions, vars, convertVars>>

\* the violations of the address a half matched: the complaint half only for
\* an address not queried already; the query text is built by interpolation
Query(half) ==
  /\ lpc = (IF half = "prop" THEN "query_prop" ELSE "query_complaint")
  /\ LET data == IF half = "prop" THEN data_prop ELSE data_complaint
         next == IF half = "prop" THEN "query_complaint" ELSE "combine"
     IN IF HasMatch(data)
           /\ (half = "prop" \/ Val(data).matched_database_address
                                  \notin Range(matched_addresses))
        THEN LET addr == Val(data).matched_database_address
             IN /\ matched_addresses' = Append(matched_addresses, addr)
                /\ queried' = Append(queried, half)
                /\ IF HasQuote(addr)
                   THEN /\ failure' = [kind |-> "DatabaseError", at |-> half]
                        /\ lpc' = "raised"
                        /\ UNCHANGED dfs
                   ELSE /\ dfs' = Append(dfs, ViolationsOf(addr))
                        /\ lpc' = next
                        /\ UNCHANGED failure
        ELSE /\ lpc' = next
             /\ UNCHANGED <<matched_addresses, queried, dfs, failure>>
  /\ UNCHANGED <<input_address, code_violations, data_prop, data_complaint,
                 unparsed, shown, summary_text, oracleLog, submissions,
                 vars, convertVars>>

\* "if dfs": the frames are combined and summarized, and the text written
Combine(reply, sent) ==
  /\ lpc = "combine"
  /\ IF dfs # <<>>
     THEN LET r == summarize_violations(concat(dfs), reply)
          IN /\ oracleLog' = oracleLog \o [i \in 1..r.calls |-> "summary"]
             /\ IF r.calls > 0 /\ ~sent
                THEN /\ failure' = [kind |-> "oracle", at |-> "summary"]
                     /\ lpc' = "raised"
                     /\ UNCHANGED <<summary_text, shown>>
                ELSE /\ summary_text' = Some(r.text)
                     /\ shown' = shown \cup {IF r.text # "" THEN "summary"
                                             ELSE "no_summary"}
                     /\ lpc' = "done"
                     /\ UNCHANGED failure
     ELSE /\ shown' = shown \cup {"no_match"}
          /\ lpc' = "done"
          /\ UNCHANGED <<summary_text, oracleLog, failure>>
  /\ UNCHANGED <<input_address, code_violations, data_prop, data_complaint,
                 unparsed, matched_addresses, dfs, queried, submissions,
                 vars, convertVars>>

LookupNext ==
  \/ \E addr \in {"", "1 main street"} : Submit(addr)
  \/ \E reply \in AddressReplies, sent \in BOOLEAN : Match("prop", reply, sent)
  \/ \E reply \in AddressReplies, sent \in BOOLEAN :
       Match("complaint", reply, sent)
  \/ Display
  \/ Query("prop")
  \/ Query("complaint")
  \/ \E reply \in SummaryReplies, sent \in BOOLEAN : Combine(reply, sent)

SpecLookup == LookupInit /\ [][LookupNext]_<<vars, lookupVars>>

\* ---------------------------------------------------- date conversion ----
\* the non-empty batches of at most MaxBatch records
Batches == UNION { [1..n -> Cells] : n \in 1..MaxBatch }

ConvertInit ==
  /\ EtlParked /\ LookupParked
  /\ cpc = "input"
  /\ field \in ColumnNames
  /\ batch \in Batches
  /\ frame = <<>>

\* the tail of fetch_data: the frame is built and its date columns converted
Convert ==
  /\ cpc = "input"
  /\ frame' = convert_dates(field, batch)
  /\ cpc' = "returned"
  /\ UNCHANGED <<field, batch, vars, lookupVars>>

SpecConvert == ConvertInit /\ [][Convert]_<<vars, convertVars>>

\* ============================================================= claims ====
InRun == pc \in {"loop", "paging", "fetched"}

\* fetch_and_load_data has returned for dataset d in the run in progress
Returned(d) == InRun /\ idx > d

DateKeyed(d) == cfg[d].date_field

IdKeyed(d) == ~cfg[d].date_field /\ cfg[d].id_field

LoadsOf(d) == {k \in 1..Len(loadLog) : loadLog[k].ds = d}

\* C1: a date-keyed dataset's missing table was fetched and replace-loaded by
\* one run; in the run that follows at once (the upstream gained nothing, no
\* time passed, nothing failed) the dataset gets no load, or one of zero rows,
\* and its row count is what it was after the first run.
C1_RerunIsNoOp ==
  \A d \in Datasets :
    (DateKeyed(d) /\ base[d] # None /\ ~faulted /\ Returned(d)) =>
       /\ Len(table[d].rows) = Val(base[d])
       /\ \A k \in LoadsOf(d) : loadLog[k].rows = <<>>

\* C2: as long as no request and no store access has failed, no table of a
\* date-keyed dataset holds an upstream record twice.
C2_NoRecordStoredTwice ==
  ~faulted =>
    \A d \in Datasets : DateKeyed(d) =>
      \A i, j \in 1..Len(table[d].rows) :
        i # j => table[d].rows[i].id # table[d].rows[j].id

\* C3: every row of an append-mode load of a date-keyed dataset has a date
\* that is not before the watermark the fetch was started from (in runs where
\* nothing has failed, the service honouring BETWEEN).
C3_AppendNotBeforeWatermark ==
  ~faulted =>
    \A k \in 1..Len(loadLog) :
      (loadLog[k].mode = "append" /\ DateKeyed(loadLog[k].ds)) =>
        \A n \in 1..Len(loadLog[k].rows) :
          loadLog[k].rows[n].date >= Val(loadLog[k].wm)

MaxIdOf(tbl) ==
  IF tbl.rows = <<>> THEN 0
  ELSE MaxOf({tbl.rows[i].id : i \in 1..Len(tbl.rows)} \cup {0})

\* C4: every row of an append-mode load of an id-keyed dataset has an
\* identifier above the watermark its fetch was started from, and so above
\* every identifier the table held before the load.
C4_AppendAboveStoredMaximum ==
  \A k \in 1..Len(loadLog) :
    (loadLog[k].mode = "append" /\ IdKeyed(loadLog[k].ds)) =>
      \A n \in 1..Len(loadLog[k].rows) :
        /\ loadLog[k].rows[n].id > Val(loadLog[k].wm)
        /\ loadLog[k].rows[n].id > MaxIdOf(loadLog[k].before)

\* C5: whatever fails for one dataset, the run is not aborted: it never ends
\* in an exception, and when it has ended fetch_and_load_data was invoked once
\* for every dataset of the list, in listed order.
C5_RunCoversEveryDataset ==
  /\ pc # "crashed"
  /\ (pc = "idle" /\ runs > 0) => processed = [d \in Datasets |-> d]

\* C6: a fetch_data call one of whose requests ended in a request error,
\* malformed JSON, a response without the expected keys or a type error
\* returns None.
C6_FailedRequestYieldsNoData ==
  (pc = "fetched" /\ fault) => result = None

\* the watermark of the current dataset has been read
WatermarkRead ==
  pc \in {"paging", "fetched"} \/ (pc = "crashed" /\ raised # "watermark")

NoRows(tbl) == ~tbl.exists \/ tbl.rows = <<>>

\* C7: for a table that does not exist or holds no rows the watermark read is
\* None for a date field and 0 for an identifier field, and no watermark read
\* ever raises to fetch_and_load_data.
C7_NoWatermarkWithoutRows ==
  /\ raised # "watermark"
  /\ (WatermarkRead /\ NoRows(table[idx])) =>
       /\ DateKeyed(idx) => wm = None
       /\ IdKeyed(idx) => wm = Some(0)

C7_Witness ==
  /\ pc = "paging" /\ IdKeyed(idx) /\ ~table[idx].exists
  /\ wm = Some(0) /\ upstream[idx] # {}

\* C8 as stated: whenever a response carries zero features, fetch_data
\* returns None.
C8_EmptyPageYieldsNone ==
  (pc = "fetched" /\ lastResp = "empty") => result = None

\* C8 as amended: a page of zero features ends the paging with the offset
\* left at that of the request; fetch_data then returns None if no earlier
\* page gave records and the table of the accumulated records otherwise; it
\* never returns a table of zero rows.
C8_EmptyPageEndsPaging ==
  /\ lastResp = "empty" =>
       /\ pc = "fetched"
       /\ cfg[idx].paginate =>
            /\ Some(offset) = reqLog[Len(reqLog)]
            /\ \A n \in 1..Len(reqLog) : Val(reqLog[n]) <= offset
       /\ all_records = <<>> => result = None
       /\ all_records # <<>> => result = Some(all_records)
  /\ (pc = "fetched" /\ result # None) => Val(result) # <<>>

C8_Witness ==
  /\ pc = "fetched" /\ lastResp = "empty" /\ result = None
  /\ upstream[idx] # {}

\* C9: the Loader is called in replace mode only for a date-keyed dataset
\* whose watermark was absent; a date-keyed dataset with a watermark and every
\* id-keyed dataset are loaded in append mode only.
C9_ReplaceOnlyWithoutWatermark ==
  \A k \in 1..Len(loadLog) :
    LET e == loadLog[k]
    IN /\ e.mode \in {"replace", "append"}
       /\ e.mode = "replace" => (DateKeyed(e.ds) /\ e.wm = None)
       /\ (DateKeyed(e.ds) /\ e.wm # None) => e.mode = "append"
       /\ IdKeyed(e.ds) => e.mode = "append"

C9_Witness ==
  \E k \in 1..Len(loadLog) :
    /\ loadLog[k].mode = "append" /\ IdKeyed(loadLog[k].ds)
    /\ ~loadLog[k].before.exists

\* C10: when fetch_data has returned None, the rest of fetch_and_load_data
\* performs no load, and it leaves every table as it was when the dataset was
\* entered.
C10_NoDataNoLoad ==
  [][(pc = "fetched" /\ result = None) =>
       (table' = tblBefore /\ loadLog' = loadLog)]_vars

C10_Witness ==
  /\ pc = "fetched" /\ result = None
  /\ table[idx].exists /\ table[idx].rows # <<>>

NoKey(d) == ~cfg[d].date_field /\ ~cfg[d].id_field

\* C11: a dataset whose config names neither a date field nor an id field is
\* skipped: its call of fetch_and_load_data reads no watermark, issues no
\* request, writes nothing to the store and returns normally, so that the loop
\* goes on to the next dataset.
C11_NoKeyIsSkipped ==
  [][(pc = "loop" /\ idx \in Datasets /\ NoKey(idx)) =>
       /\ wmReads' = 0
       /\ reqLog' = <<>>
       /\ table' = table /\ loadLog' = loadLog
       /\ raised' = "none" /\ pc' = "loop"
       /\ idx' = idx + 1 /\ processed' = Append(processed, idx)]_vars

C11_Witness ==
  \E k \in 1..Len(processed) :
    /\ NoKey(processed[k])
    /\ k < Len(processed) /\ processed[k + 1] = processed[k] + 1
    /\ pc = "paging"

\* C12: a load in replace mode leaves the table holding exactly the new rows,
\* the prior rows being discarded atomically: after the call it is never the
\* case that the prior rows are gone while the new rows are not all present;
\* a load in append mode leaves every prior row unchanged, followed by exactly
\* the new rows.  (A load that failed and left the table as it was is let
\* pass here: the formula asks for all or nothing.)
C12_LoadIsAllOrNothing ==
  \A k \in 1..Len(loadLog) :
    LET e == loadLog[k]
    IN /\ e.mode = "replace" =>
            (e.after.rows = e.rows \/ e.after.rows = e.before.rows)
       /\ e.mode = "append" =>
            (e.after.rows = e.before.rows \o e.rows
               \/ e.after.rows = e.before.rows)

C14_SummaryOfNothingAsksNothing ==
  [][(lpc = "combine" /\ dfs # <<>>) =>
       IF concat(dfs) = <<>>
       THEN /\ summary_text' = Some("No violations to summarize.")
            /\ oracleLog' = oracleLog
       ELSE oracleLog' = Append(oracleLog, "summary")]_<<vars, lookupVars>>

C14_Witness ==
  /\ lpc = "done" /\ dfs # <<>> /\ concat(dfs) = <<>>
  /\ summary_text = Some("No violations to summarize.")
  /\ oracleLog = <<"prop", "complaint">>

Data(h) == IF h = "prop" THEN data_prop ELSE data_complaint
Other(h) == IF h = "prop" THEN "complaint" ELSE "prop"

\* C15: when the oracle's reply to an address-matching call cannot be parsed,
\* process_address returns None and raises nothing; main neither displays
\* that half nor queries violations for it, and it goes on to display the
\* other half and to query the violations of the other half's match.
C15_UnparsedHalfIsSkipped ==
  \A h \in unparsed :
    /\ failure.kind # "JSONDecodeError"
    /\ Data(h) = None
    /\ h \notin shown /\ h \notin Range(queried)
    /\ lpc = "raised" => failure.at # h
    /\ (lpc \in {"query_prop", "query_complaint", "combine", "done"}
          /\ Other(h) \notin unparsed) => Other(h) \in shown
    /\ (lpc \in {"combine", "done"} /\ HasMatch(Data(Other(h))))
         => Other(h) \in Range(queried)

C15_Witness ==
  /\ lpc = "done" /\ unparsed = {"prop"}
  /\ shown = {"complaint", "summary"} /\ queried = <<"complaint">>

\* C16: for every column whose name contains "date" in any case and whose
\* fetched values are integers, every value of the returned table is the
\* timestamp those milliseconds denote, never the raw number, also in a batch
\* where some record lacks the field.
C16_DateColumnsHoldTimestamps ==
  (cpc = "returned" /\ ContainsDate(lower(field))) =>
    \A i \in DOMAIN batch :
      batch[i].kind = "int" => frame[i] = to_datetime(batch[i])

Paging == pc \in {"paging", "fetched"} /\ idx \in Datasets

\* the features received so far by the fetch_data call in progress
Received == concat(pages)

\* the offsets and page size of the requests of a paginated call
OffsetsInOrder ==
  /\ \A n \in 1..Len(reqLog) : reqLog[n] = Some((n - 1) * record_limit)
  /\ reqLog # <<>> =>
       /\ params.resultOffset = reqLog[Len(reqLog)]
       /\ params.resultRecordCount = Some(record_limit)

C18_CapBoundsResult ==
  (Paging /\ cfg[idx].max_records # None /\ Val(cfg[idx].max_records) > 0) =>
    /\ (pc = "fetched" /\ result # None) =>
         Len(Val(result)) <= Val(cfg[idx].max_records)
    /\ pc = "paging" => Len(all_records) < Val(cfg[idx].max_records)

C18_Witness ==
  /\ pc = "fetched" /\ cfg[idx].max_records # None
  /\ result # None /\ Len(Val(result)) = Val(cfg[idx].max_records)
  /\ Len(Received) > Val(cfg[idx].max_records)
  /\ Len(reqLog) = 1

\* C19: with pagination disabled fetch_data issues exactly one request,
\* whatever the size of the first page, sets neither an offset nor a page
\* size on it, and returns only the records of that page.
C19_OneRequestWithoutPagination ==
  (Paging /\ ~cfg[idx].paginate) =>
    /\ Len(reqLog) <= 1
    /\ \A n \in 1..Len(reqLog) : reqLog[n] = None
    /\ params.resultOffset = None /\ params.resultRecordCount = None
    /\ pc = "fetched" => Len(reqLog) = 1
    /\ (pc = "fetched" /\ result # None) =>
         (Len(pages) = 1 /\ Val(result) = pages[1])

C19_Witness ==
  /\ pc = "fetched" /\ ~cfg[idx].paginate
  /\ result # None /\ Len(Val(result)) = maxRecordCount
  /\ Len(reqLog) = 1

\* C20: for each dataset of a run the steps come in the order watermark read,
\* query construction, paging, load: while its pages are requested the
\* watermark has been read exactly once and the store is as it was when the
\* dataset was entered; the watermark is read before any request is issued;
\* the store is written only by the load that follows the last page request,
\* and at most once per dataset.
C20_ReadPageThenLoad ==
  /\ [](Paging => (wmReads = 1 /\ table = tblBefore))
  /\ [](\A j, k \in 1..Len(loadLog) : loadLog[j].ds = loadLog[k].ds => j = k)
  /\ [][/\ wmReads' > wmReads => (reqLog = <<>> /\ reqLog' = <<>>)
        /\ table' # table => (pc = "fetched" /\ pc' = "loop")]_vars

C20_Witness ==
  /\ pc = "loop" /\ Len(loadLog) = 2
  /\ \A k \in 1..2 : loadLog[k].ok /\ loadLog[k].after # loadLog[k].before

\* the record with this identifier is a row of the table of dataset d
Stored(d, id) == \E n \in 1..Len(table[d].rows) : table[d].rows[n].id = id

\* no upstream record of an id-keyed dataset lies at or below the stored
\* maximum without being stored: the watermark has skipped nothing
NothingSkipped ==
  \A d \in Datasets :
    IdKeyed(d) =>
      \A r \in upstream[d] : r.id <= MaxIdOf(table[d]) => Stored(d, r.id)

C22_ReplaceOnlyOnEmptyTable ==
  \A k \in 1..Len(loadLog) :
    loadLog[k].mode = "replace" =>
      (~loadLog[k].before.exists \/ loadLog[k].before.rows = <<>>)

RECURSIVE NonEmptyPages(_)
\* the number of received pages that held features
NonEmptyPages(ps) ==
  IF ps = <<>> THEN 0
  ELSE (IF Head(ps) # <<>> THEN 1 ELSE 0) + NonEmptyPages(Tail(ps))

PagingOn == pc = "paging" /\ cfg[idx].paginate

\* C23: with pagination enabled every fetch_data call terminates, and it ends
\* by returning, a table or the no-data signal, having issued at most one
\* request past the last page that held features.
C23_FetchReturns ==
  /\ PagingOn ~> (pc # "paging")
  /\ [][PagingOn => pc' \in {"paging", "fetched"}]_vars
  /\ []((Paging /\ cfg[idx].paginate) =>
          Len(reqLog) <= NonEmptyPages(pages) + 1)

====
